---- MODULE Spec2Model ----
(***************************************************************************)
(* Interactive geodesic measurement engine of the quoting tool: the        *)
(* pointer-gesture listeners, the drawing session (startDrawing,           *)
(* finishDrawing, cancelDrawing, undoLastPoint, clearDrawing), the         *)
(* geometry helpers and the four-unit measurement boxes.                   *)
(*                                                                         *)
(* Numbers.  The program computes in IEEE doubles; the model computes in   *)
(* fixed point with integers:                                              *)
(*   - a GeoPoint is <<lng, lat>> counted in map pixels east / north of    *)
(*     the geographic position of the canvas origin (one pixel spans the   *)
(*     same angle in both directions);                                     *)
(*   - lengths are in millimetres, areas in 1/1000 m^2, so a raw           *)
(*     measurement (drawnRawMeters, drawnPerimeterMeters) is in 1/1000 of  *)
(*     its unit;                                                           *)
(*   - derived sqft / linft / sqyd values are in 1/1000 of their unit,     *)
(*     derived acres in 1/10^7 acre;                                       *)
(*   - the text of a unit box is a number at the precision toFixed gives   *)
(*     it: sqft and linft in tenths, sqyd in hundredths, acre in 1/10^4.   *)
(* Sums that cancel exactly in real arithmetic cancel exactly here.        *)
(***************************************************************************)
EXTENDS Integers, Naturals, Sequences, FiniteSets, TLC

\* ------------------------------------------------------------------ bounds
MaxPoints == 3          \* longest tracked point list the model explores

\* ------------------------------------------------------- program constants
TAP_MAX_DIST == 12
TAP_MAX_TIME == 500

\* JS null (a derived value that does not apply) and the empty text ''.
Null == -1
Blank == -2

Units == {"sqft", "linft", "sqyd", "acre"}
Modes == {"polygon", "line"}

\* --------------------------------------------------------------- arithmetic
Abs(n) == IF n < 0 THEN -n ELSE n

\* <<q, r>> with a * b = q * c + r and 0 <= r < c, taking b ten bits at a time
\* so that no intermediate value leaves the 32-bit range (a, b >= 0,
\* 0 < c < 2^20).
RECURSIVE MulDivQR(_, _, _)
MulDivQR(a, b, c) ==
  IF b = 0 THEN <<0, 0>>
  ELSE LET h  == MulDivQR(a, b \div 1024, c)
           lo == b % 1024
           q2 == 1024 * h[1] + lo * (a \div c)
           r2 == 1024 * h[2] + lo * (a % c)
       IN  <<q2 + (r2 \div c), r2 % c>>

\* a * b / c rounded to the nearest integer (halves up).
MulDiv(a, b, c) ==
  LET qr == MulDivQR(a, b, c)
  IN  qr[1] + (IF 2 * qr[2] >= c THEN 1 ELSE 0)

\* Math.sqrt on a non-negative integer, rounded down: Newton's iteration from
\* x above the root, which ends at the first step that does not descend.
RECURSIVE SqrtFrom(_, _)
SqrtFrom(n, x) ==
  LET y == (x + n \div x) \div 2
  IN  IF y >= x THEN x ELSE SqrtFrom(n, y)

Sqrt(n) == IF n = 0 THEN 0 ELSE SqrtFrom(n, 46340)

\* ----------------------------------------------------------------- geometry
\* The host map: Mapbox GL at zoom 17 around [-96.7970, 32.7767].  One pixel
\* is 0.5015 m on the ground in either direction; lengths below are counted
\* in half millimetres.  HalfMmPerPx is R * toRad(one pixel) * cos(lat);
\* ShearHalfMmPerPx is how far the projected x of polygonAreaMeters moves
\* when a point goes one pixel north, because the cosine factor is taken at
\* the point's own latitude and the longitude is far from zero.
HalfMmPerPx == 1003
ShearHalfMmPerPx == 917

\* Position of the canvas in the viewport (getBoundingClientRect).
RectLeft == 100
RectTop == 100

\* map.unproject([x, y]): canvas pixel to GeoPoint <<lng, lat>> (y grows
\* downwards on the screen, latitude grows northwards).
unproject(x, y) == <<x, 0 - y>>

\* haversineMeters(a, b), in millimetres.  For separations of a few metres
\* sin(d/2) = d/2 and 2*atan2(sqrt(x), sqrt(1-x)) = 2*sqrt(x), so that the
\* result is R*sqrt(dLat^2 + cos(lat1)*cos(lat2)*dLng^2).
haversineMeters(a, b) ==
  LET dLat == (b[2] - a[2]) * HalfMmPerPx
      dLng == (b[1] - a[1]) * HalfMmPerPx
      x    == dLat * dLat + dLng * dLng
  IN  (Sqrt(x) + 1) \div 2

\* The projected point of polygonAreaMeters, [R*lng*cos(lat), R*lat], relative
\* to the projected canvas origin (the shoelace sum over a closed cycle does
\* not depend on the origin).
ProjectedX(p) == HalfMmPerPx * p[1] + ShearHalfMmPerPx * p[2]
ProjectedY(p) == HalfMmPerPx * p[2]

\* The shoelace loop: for (i = 0, j = n - 1; i < n; j = i++) area += ...
RECURSIVE ShoelaceFrom(_, _)
ShoelaceFrom(pts, i) ==
  IF i > Len(pts) THEN 0
  ELSE LET j == IF i = 1 THEN Len(pts) ELSE i - 1
       IN  (ProjectedX(pts[j]) + ProjectedX(pts[i]))
             * (ProjectedY(pts[j]) - ProjectedY(pts[i]))
           + ShoelaceFrom(pts, i + 1)

\* An area that kept the sign of the shoelace sum.
polygonAreaMetersSigned(ring) ==
  LET area == ShoelaceFrom(ring, 1)
  IN  IF area < 0 THEN 0 - MulDiv(0 - area, 1, 8000) ELSE MulDiv(area, 1, 8000)

\* polygonAreaMeters(ring), in 1/1000 m^2: Math.abs(area / 2).
polygonAreaMeters(ring) == MulDiv(Abs(ShoelaceFrom(ring, 1)), 1, 8000)

\* A path length that went back from the last point to the first.
RECURSIVE lengthOfFirst(_, _)
lengthOfFirst(coords, n) ==
  IF n < 2 THEN 0
  ELSE lengthOfFirst(coords, n - 1) + haversineMeters(coords[n - 1], coords[n])
lineStringMetersClosed(coords) ==
  IF Len(coords) < 2 THEN 0
  ELSE lengthOfFirst(coords, Len(coords))
       + haversineMeters(coords[Len(coords)], coords[1])

\* lineStringMeters(coords), in millimetres.
RECURSIVE lineStringMeters(_)
lineStringMeters(coords) ==
  IF Len(coords) < 2 THEN 0
  ELSE lineStringMeters(SubSeq(coords, 1, Len(coords) - 1))
       + haversineMeters(coords[Len(coords) - 1], coords[Len(coords)])

\* -------------------------------------------------------------------- state
VARIABLES
  mapLoaded,             \* map.loaded(): the 'load' handler has run
  drawnFeature,          \* the stored geometry, NoFeature for null
  coordsShared,          \* the coordinates of drawnFeature are the array trackedPoints itself
  drawnRawMeters,        \* 1/1000 m^2 (area) or millimetres (line)
  drawnPerimeterMeters,  \* millimetres
  drawnRawType,          \* "area" | "line"
  isDrawing,
  drawMode,              \* "polygon" | "line"
  trackedPoints,
  ptrDown,               \* _ptrDown: NoPtr or [x, y]; its time is the origin of Elapsed
  munit,                 \* text of the boxes munit-sqft, -linft, -sqyd, -acre
  active,                \* document.activeElement: a unit, or "none"
  preview,               \* data of the 'draw-preview' source
  toast,                 \* what the handler that ran last passed to showToast, "" if nothing
  lastOp,                \* history: the name of the handler that ran last
  wasDrawing,            \* history: isDrawing when that handler was called
  hadCandidate,          \* history: whether _ptrDown was set when that handler was called
  accepted,              \* history: the points the pointerup listener accepted in the
                         \* current session and undoLastPoint has not removed
  lineItems,             \* the line items, as the form shows them
  lineItemCalcTimer      \* _lineItemCalcTimer: TRUE while the debounce timer is pending

sessionVars == <<drawnFeature, coordsShared, isDrawing, drawMode, trackedPoints, preview>>
rawVars == <<drawnRawMeters, drawnPerimeterMeters, drawnRawType>>
pointerVars == <<ptrDown>>
boxVars == <<munit, active>>
histVars == <<lastOp, wasDrawing, hadCandidate, accepted>>
itemVars == <<lineItems, lineItemCalcTimer>>
vars == <<mapLoaded, sessionVars, rawVars, pointerVars, boxVars, toast, histVars, itemVars>>

NoFeature == [type |-> "null", coordinates |-> <<>>]
NoPtr == [x |-> -1, y |-> -1]
EmptyPreview == [points |-> <<>>, line |-> <<>>, fill |-> <<>>]

\* Pointer positions (clientX, clientY) of a pointerup: the place of the
\* pointerdown, two places 12 pixels from it and one 13 pixels from it.
Pixels == {<<100, 100>>, <<112, 100>>, <<100, 112>>, <<100, 113>>}
\* Where the pointer goes down.
DownPixels == {<<100, 100>>}
Buttons == {0, 2}
\* Milliseconds between the recorded pointerdown and a pointerup.
Elapsed == {500, 501}
\* What the user types into a unit box, at the precision of the box
\* (10000 is 1000.0 sq ft, 1000.0 lin ft, 100.00 sq yd or 1.0000 acre).
Typed == {Blank, 10000}

\* ------------------------------------------------------ measurement and calc
\* Box text to number: parseFloat(el.value), in the units of the derived
\* values (1/1000 of the unit, 1/10^7 acre); Null stands for NaN.
BoxScale(u) == IF u = "sqyd" THEN 10 ELSE IF u = "acre" THEN 1000 ELSE 100

parseBox(boxes, u) == IF boxes[u] = Blank THEN Null ELSE boxes[u] * BoxScale(u)

\* A formatting that always went up to the next digit shown.
fmt4NextDigit(v, u) == IF v # Null /\ v > 0 THEN (v \div BoxScale(u)) + 1 ELSE Blank

\* fmt4(v, decimals): parseFloat(v.toFixed(decimals)) or ''.
fmt4(v, u) == IF v # Null /\ v > 0 THEN MulDiv(v, 1, BoxScale(u)) ELSE Blank

\* A line measurement derived as if it were an area.
lineMeasurementsAsArea(raw) ==
  [sqft |-> MulDiv(raw, 107639, 10000), linft |-> MulDiv(raw, 328084, 100000),
   sqyd |-> MulDiv(raw, 109361, 100000), acre |-> MulDiv(raw, 1000000, 404686)]

\* getAllMeasurements: the values of a line of raw millimetres.
lineMeasurements(raw) ==
  [sqft |-> Null, linft |-> MulDiv(raw, 328084, 100000),
   sqyd |-> MulDiv(raw, 109361, 100000), acre |-> Null]

\* A manual entry that read the linft box before the others.
firstPositiveLinftFirst(boxes) ==
  IF parseBox(boxes, "linft") > 0 THEN "linft"
  ELSE IF parseBox(boxes, "sqft") > 0 THEN "sqft"
  ELSE IF parseBox(boxes, "sqyd") > 0 THEN "sqyd"
  ELSE IF parseBox(boxes, "acre") > 0 THEN "acre"
  ELSE "none"

\* getAllMeasurements, no raw measurement: the box the values are taken from.
firstPositive(boxes) ==
  IF parseBox(boxes, "sqft") > 0 THEN "sqft"
  ELSE IF parseBox(boxes, "sqyd") > 0 THEN "sqyd"
  ELSE IF parseBox(boxes, "acre") > 0 THEN "acre"
  ELSE IF parseBox(boxes, "linft") > 0 THEN "linft"
  ELSE "none"

\* getAllMeasurements() against the given raw measurement and box texts.
getAllMeasurements(raw, perim, type, boxes) ==
  IF raw > 0 THEN
    IF type = "line"
    THEN lineMeasurements(raw)
    ELSE [sqft  |-> MulDiv(raw, 107639, 10000),
          linft |-> IF perim > 0 THEN MulDiv(perim, 328084, 100000) ELSE Null,
          sqyd  |-> MulDiv(raw, 119599, 100000),
          acre  |-> MulDiv(raw, 1000000, 404686)]
  ELSE
    LET from     == firstPositive(boxes)
        sqftVal  == parseBox(boxes, "sqft")
        sqydVal  == parseBox(boxes, "sqyd")
        acreVal  == parseBox(boxes, "acre")
        linftVal == parseBox(boxes, "linft")
    IN  IF from = "sqft" THEN
          [sqft |-> sqftVal, linft |-> Null, sqyd |-> MulDiv(sqftVal, 1, 9),
           acre |-> MulDiv(sqftVal, 10000, 43560)]
        ELSE IF from = "sqyd" THEN
          [sqft |-> sqydVal * 9, linft |-> Null, sqyd |-> sqydVal,
           acre |-> MulDiv(sqydVal * 9, 10000, 43560)]
        ELSE IF from = "acre" THEN
          [sqft |-> MulDiv(acreVal, 43560, 10000), linft |-> Null,
           sqyd |-> MulDiv(MulDiv(acreVal, 43560, 10000), 1, 9),
           acre |-> acreVal]
        ELSE IF from = "linft" THEN
          [sqft |-> Null, linft |-> linftVal, sqyd |-> Null, acre |-> Null]
        ELSE [sqft |-> 0, linft |-> 0, sqyd |-> 0, acre |-> 0]

\* updateAllMeasurementInputs(): the new box texts; the focused box is left
\* alone.
updateAllMeasurementInputs(raw, perim, type, boxes, focus) ==
  LET m == getAllMeasurements(raw, perim, type, boxes)
  IN  [u \in Units |->
         IF focus = u THEN boxes[u]
         ELSE IF u = "linft"
              THEN (IF m.linft # Null THEN fmt4(m.linft, u) ELSE Blank)
              ELSE fmt4(m[u], u)]

\* A recalculation that wrote into the focused box too.
updateCalcEveryBox(raw, perim, type, boxes, focus) ==
  updateAllMeasurementInputs(raw, perim, type, boxes, "none")

\* updateCalc(): of the state modelled here it changes the unit boxes only.
updateCalc(raw, perim, type, boxes, focus) ==
  updateAllMeasurementInputs(raw, perim, type, boxes, focus)

\* A preview that never closed the line and showed no fill.
updateDrawPreviewOpen(pts, mode) ==
  [points |-> pts,
   line   |-> IF Len(pts) >= 2 THEN pts ELSE <<>>,
   fill   |-> <<>>]

\* updateDrawPreview(): the points, the connecting line (closed for a polygon
\* of 3 or more points) and the fill.
updateDrawPreview(pts, mode) ==
  [points |-> pts,
   line   |-> IF Len(pts) >= 2
              THEN (IF mode = "polygon" /\ Len(pts) >= 3
                    THEN Append(pts, pts[1]) ELSE pts)
              ELSE <<>>,
   fill   |-> IF mode = "polygon" /\ Len(pts) >= 3
              THEN Append(pts, pts[1]) ELSE <<>>]

\* addLineItem(data): the item pushed, data?.x || default for each field; the
\* area is kept in tenths of the unit (1/10^4 acre), the price in cents.
newLineItem(id, type, area, unit, price, qty) ==
  [id |-> id, type |-> type, area |-> area, unit |-> unit, price |-> price, qty |-> qty]

\* addLineItem() at start-up: the form starts with one item.
FirstLineItem == newLineItem(1, "pressure-washing", 0, "sqft", 0, 1)

\* --------------------------------------------------------------------- Init
Init ==
  /\ mapLoaded = FALSE
  /\ drawnFeature = NoFeature
  /\ coordsShared = FALSE
  /\ drawnRawMeters = 0
  /\ drawnPerimeterMeters = 0
  /\ drawnRawType = "area"
  /\ isDrawing = FALSE
  /\ drawMode = "polygon"
  /\ trackedPoints = <<>>
  /\ ptrDown = NoPtr
  /\ munit = [u \in Units |-> Blank]
  /\ active = "none"
  /\ preview = EmptyPreview
  /\ toast = ""
  /\ lastOp = "init"
  /\ wasDrawing = FALSE
  /\ hadCandidate = FALSE
  /\ accepted = <<>>
  /\ lineItems = <<FirstLineItem>>
  /\ lineItemCalcTimer = FALSE

\* ------------------------------------------------------------------ actions
\* map.on('load'): the preview source exists and the canvas listeners are
\* attached from here on.
OnMapLoad ==
  /\ ~mapLoaded
  /\ mapLoaded' = TRUE
  /\ toast' = ""
  /\ lastOp' = "OnMapLoad"
  /\ wasDrawing' = isDrawing
  /\ hadCandidate' = (ptrDown # NoPtr)
  /\ UNCHANGED itemVars
  /\ UNCHANGED <<sessionVars, rawVars, pointerVars, boxVars, accepted>>

\* canvas 'pointerdown' listener; pointerdownIgnoredOffDuty is the listener
\* without its isDrawing test.
pointerdownIgnoredOffDuty(drawing, button) == button # 0

\* pointerdown: the two early returns.
pointerdownIgnored(drawing, button) == ~drawing \/ button # 0

pointerdown(p, button) ==
  /\ mapLoaded
  /\ IF pointerdownIgnored(isDrawing, button)
     THEN UNCHANGED ptrDown
     ELSE ptrDown' = [x |-> p[1], y |-> p[2]]
  /\ toast' = ""
  /\ lastOp' = "pointerdown"
  /\ wasDrawing' = isDrawing
  /\ hadCandidate' = (ptrDown # NoPtr)
  /\ UNCHANGED itemVars
  /\ UNCHANGED <<mapLoaded, sessionVars, rawVars, boxVars, accepted>>

PointerDown == \E p \in DownPixels, button \in Buttons : pointerdown(p, button)

\* canvas 'pointerup' listener.  elapsed is Date.now() - _ptrDown.time, an
\* input of the event: the clock is read nowhere else.  dist > TAP_MAX_DIST
\* is decided on the squares, which is the same comparison without the
\* rounding of a root.  The model stops accepting at MaxPoints points.
\* pointerupIgnored is the three early returns, which leave _ptrDown as it is;
\* pointerupIgnoredWhileDrawingOnly is the listener without its isDrawing test.
\* A listener that took a long press for a tap.
notATapByDistanceOnly(dist2, elapsed) == dist2 > TAP_MAX_DIST * TAP_MAX_DIST

\* pointerup: the pan and long-press returns.
notATap(dist2, elapsed) ==
  dist2 > TAP_MAX_DIST * TAP_MAX_DIST \/ elapsed > TAP_MAX_TIME

pointerupIgnoredWhileDrawingOnly(drawing, candidate, button, targetIsCanvas) ==
  candidate = NoPtr \/ button # 0 \/ ~targetIsCanvas

pointerupIgnored(drawing, candidate, button, targetIsCanvas) ==
  ~drawing \/ candidate = NoPtr \/ button # 0 \/ ~targetIsCanvas

\* trackedPoints.push(pt) and trackedPoints.pop() change the array in place:
\* a stored LineString whose coordinates are that array changes with it.
featureAfterPushOrPop(feature, shared, pts) ==
  IF shared THEN [feature EXCEPT !.coordinates = pts] ELSE feature

pointerup(p, button, targetIsCanvas, elapsed) ==
  /\ mapLoaded
  /\ IF pointerupIgnored(isDrawing, ptrDown, button, targetIsCanvas)
     THEN UNCHANGED <<ptrDown, sessionVars, accepted>>
     ELSE LET dx    == p[1] - ptrDown.x
              dy    == p[2] - ptrDown.y
              dist2 == dx * dx + dy * dy
              pt    == unproject(p[1] - RectLeft, p[2] - RectTop)
          IN  /\ ptrDown' = NoPtr
              /\ IF notATap(dist2, elapsed)
                 THEN UNCHANGED <<sessionVars, accepted>>
                 ELSE /\ Len(trackedPoints) < MaxPoints
                      /\ trackedPoints' = Append(trackedPoints, pt)
                      /\ accepted' = Append(accepted, pt)
                      /\ preview' = updateDrawPreview(trackedPoints', drawMode)
                      /\ drawnFeature' = featureAfterPushOrPop(drawnFeature, coordsShared,
                                                               trackedPoints')
                      /\ UNCHANGED <<coordsShared, isDrawing, drawMode>>
  /\ toast' = ""
  /\ lastOp' = "pointerup"
  /\ wasDrawing' = isDrawing
  /\ hadCandidate' = (ptrDown # NoPtr)
  /\ UNCHANGED itemVars
  /\ UNCHANGED <<mapLoaded, rawVars, boxVars>>

\* The pointerup events explored: every position in time and one position too
\* late for the left button on the canvas, and every button and target at one
\* position and time (an event the listener ignores is ignored whatever its
\* position and time).
PointerUpEvents ==
  {<<p, 0, TRUE, 500>> : p \in Pixels}
    \cup {<<<<100, 100>>, 0, TRUE, elapsed>> : elapsed \in Elapsed}
    \cup {<<<<100, 100>>, button, targetIsCanvas, 500>> :
             button \in Buttons, targetIsCanvas \in BOOLEAN}

PointerUp == \E e \in PointerUpEvents : pointerup(e[1], e[2], e[3], e[4])

\* A startDrawing that kept the list it found.
startedPointsKept == trackedPoints

\* startDrawing: trackedPoints = [].
startedPoints == <<>>

\* startDrawing(mode).  It leaves drawnFeature and the raw measurement alone;
\* trackedPoints = [] is a new array, so that a stored LineString no longer
\* shares its coordinates with the list.
startDrawing(mode) ==
  /\ lastOp' = "startDrawing"
  /\ wasDrawing' = isDrawing
  /\ hadCandidate' = (ptrDown # NoPtr)
  /\ UNCHANGED itemVars
  /\ IF ~mapLoaded
     THEN /\ toast' = "Map is loading..."
          /\ UNCHANGED <<sessionVars, accepted>>
     ELSE /\ drawMode' = mode
          /\ isDrawing' = TRUE
          /\ trackedPoints' = startedPoints
          /\ coordsShared' = FALSE
          /\ accepted' = <<>>
          /\ preview' = EmptyPreview
          /\ toast' = ""
          /\ UNCHANGED drawnFeature
  /\ UNCHANGED <<mapLoaded, rawVars, pointerVars, boxVars>>

StartDrawing == \E mode \in Modes : startDrawing(mode)

\* A finish that took one point for enough.
tooFewPointsBelowOne(ptCount) == ptCount < 1

\* finishDrawing: if (ptCount < 2).
tooFewPoints(ptCount) == ptCount < 2

\* A finish that closed two points into a polygon.
usePolygonForTwo(mode, ptCount) == mode = "polygon" /\ ptCount >= 2

\* finishDrawing: const usePolygon = drawMode === 'polygon' && ptCount >= 3.
usePolygonFor(mode, ptCount) == mode = "polygon" /\ ptCount >= 3

\* A ring left open.
closedRingOpen(pts) == pts

\* finishDrawing: const ring = [...trackedPoints, trackedPoints[0]].
closedRing(pts) == Append(pts, pts[1])

\* A finish that left the session drawing.
drawingAfterFinishStill == TRUE

\* finishDrawing: what isDrawing is once the point count has passed.
drawingAfterFinish == FALSE

\* finishDrawing: trackedPoints after a successful finish (it is not reset).
pointsAfterFinish(pts) == pts

\* A finish that stored the feature before it measured it.
featureAfterFailedFinishStored(stored, feature) == feature

\* finishDrawing: drawnFeature after the throw of a zero area or length; the
\* catch returns before drawnFeature = feature.
featureAfterFailedFinish(stored, feature) == stored

\* finishDrawing().
finishDrawing ==
  /\ lastOp' = "finishDrawing"
  /\ wasDrawing' = isDrawing
  /\ hadCandidate' = (ptrDown # NoPtr)
  /\ UNCHANGED itemVars
  /\ IF ~isDrawing THEN
       toast' = "" /\ UNCHANGED <<sessionVars, rawVars, munit>>
     ELSE IF tooFewPoints(Len(trackedPoints)) THEN
       /\ toast' = "Tap at least 2 points on the map first"
       /\ UNCHANGED <<sessionVars, rawVars, munit>>
     ELSE
       LET ptCount    == Len(trackedPoints)
           usePolygon == usePolygonFor(drawMode, ptCount)
           ring       == closedRing(trackedPoints)
           \* the ring is a new array; the coordinates of a LineString are
           \* trackedPoints, the array itself
           feature    == IF usePolygon
                         THEN [type |-> "Polygon", coordinates |-> ring]
                         ELSE [type |-> "LineString", coordinates |-> trackedPoints]
           sq         == polygonAreaMeters(ring)
           perim      == lineStringMeters(ring)
           len        == lineStringMeters(trackedPoints)
       IN  \* isDrawing = false and clearPreview() come before the computation
           /\ isDrawing' = drawingAfterFinish
           /\ preview' = EmptyPreview
           /\ UNCHANGED drawMode
           /\ IF usePolygon /\ sq <= 0 THEN
                /\ toast' = "Area calculation failed - try drawing again"
                /\ drawnFeature' = featureAfterFailedFinish(drawnFeature, feature)
                /\ UNCHANGED <<coordsShared, trackedPoints, rawVars, munit>>
              ELSE IF ~usePolygon /\ len <= 0 THEN
                /\ toast' = "Length calculation failed - try drawing again"
                /\ drawnFeature' = featureAfterFailedFinish(drawnFeature, feature)
                /\ UNCHANGED <<coordsShared, trackedPoints, rawVars, munit>>
              ELSE
                /\ drawnRawMeters' = IF usePolygon THEN sq ELSE len
                /\ drawnPerimeterMeters' =
                     IF usePolygon THEN perim ELSE drawnPerimeterMeters
                /\ drawnRawType' = IF usePolygon THEN "area" ELSE "line"
                /\ drawnFeature' = feature
                /\ coordsShared' = ~usePolygon
                /\ trackedPoints' = pointsAfterFinish(trackedPoints)
                /\ munit' = updateCalc(drawnRawMeters', drawnPerimeterMeters',
                                       drawnRawType', munit, active)
                /\ toast' = IF usePolygon
                            THEN "Area measured! Set your price below"
                            ELSE IF drawMode = "polygon" /\ ptCount = 2
                            THEN "2 points -> measured as line. Use 3+ for area."
                            ELSE "Length measured! Set your price below"
  /\ UNCHANGED <<mapLoaded, pointerVars, active, accepted>>

\* cancelDrawing().
cancelDrawing ==
  /\ lastOp' = "cancelDrawing"
  /\ wasDrawing' = isDrawing
  /\ hadCandidate' = (ptrDown # NoPtr)
  /\ UNCHANGED itemVars
  /\ isDrawing' = FALSE
  /\ trackedPoints' = <<>>
  /\ coordsShared' = FALSE
  /\ accepted' = <<>>
  /\ preview' = EmptyPreview
  /\ toast' = ""
  /\ UNCHANGED <<drawnFeature, drawMode>>
  /\ UNCHANGED <<mapLoaded, rawVars, pointerVars, boxVars>>

\* An undo that took the first point.
poppedFirst(pts) == Tail(pts)

\* undoLastPoint: trackedPoints.pop().
popped(pts) == SubSeq(pts, 1, Len(pts) - 1)

\* undoLastPoint().
undoLastPoint ==
  /\ lastOp' = "undoLastPoint"
  /\ wasDrawing' = isDrawing
  /\ hadCandidate' = (ptrDown # NoPtr)
  /\ UNCHANGED itemVars
  /\ IF ~isDrawing \/ Len(trackedPoints) = 0
     THEN toast' = "" /\ UNCHANGED <<sessionVars, accepted>>
     ELSE /\ trackedPoints' = popped(trackedPoints)
          /\ accepted' = SubSeq(accepted, 1, Len(accepted) - 1)
          /\ preview' = updateDrawPreview(trackedPoints', drawMode)
          /\ drawnFeature' = featureAfterPushOrPop(drawnFeature, coordsShared, trackedPoints')
          /\ toast' = "Point removed"
          /\ UNCHANGED <<coordsShared, isDrawing, drawMode>>
  /\ UNCHANGED <<mapLoaded, rawVars, pointerVars, boxVars>>

\* A clearDrawing that left the text of the boxes.
clearedBoxKept(text) == text

\* clearDrawing: the text each of the four boxes is given.
clearedBox(text) == Blank

\* clearDrawing(): cancelDrawing() when drawing, then the reset, the four
\* boxes emptied, and updateCalc().
clearDrawing ==
  /\ lastOp' = "clearDrawing"
  /\ wasDrawing' = isDrawing
  /\ hadCandidate' = (ptrDown # NoPtr)
  /\ UNCHANGED itemVars
  /\ isDrawing' = FALSE
  /\ drawnFeature' = NoFeature
  /\ coordsShared' = FALSE
  /\ drawnRawMeters' = 0
  /\ drawnPerimeterMeters' = 0
  /\ drawnRawType' = "area"
  /\ trackedPoints' = <<>>
  /\ accepted' = <<>>
  /\ preview' = EmptyPreview
  /\ munit' = updateCalc(0, 0, "area", [u \in Units |-> clearedBox(munit[u])], active)
  /\ toast' = ""
  /\ UNCHANGED <<mapLoaded, drawMode, pointerVars, active>>

\* The user moves the focus into a unit box or out of the boxes.
Focus ==
  \E u \in Units \cup {"none"} :
    /\ active # u
    /\ active' = u
    /\ UNCHANGED <<mapLoaded, sessionVars, rawVars, pointerVars, munit, toast, histVars, itemVars>>

\* An edit that took the kind from the box edited.
typeAfterEditFromUnit(type, unit) == IF unit = "linft" THEN "line" ELSE "area"

\* onMeasurementInput: drawnRawType after the edit (it is not assigned).
typeAfterEdit(type, unit) == type

\* An edit of an area whose linft box moved the area too.
areaRawAfterEditLinftToo(raw, unit, v) ==
  IF unit = "sqft" THEN MulDiv(v, 10000, 107639)
  ELSE IF unit = "sqyd" THEN MulDiv(v, 100000, 119599)
  ELSE IF unit = "acre" THEN MulDiv(v, 404686, 1000000)
  ELSE MulDiv(v, 100000, 328084)

\* onMeasurementInput, kind area: drawnRawMeters after a positive edit (v in
\* the units of the derived values).
areaRawAfterEdit(raw, unit, v) ==
  IF unit = "sqft" THEN MulDiv(v, 10000, 107639)
  ELSE IF unit = "sqyd" THEN MulDiv(v, 100000, 119599)
  ELSE IF unit = "acre" THEN MulDiv(v, 404686, 1000000)
  ELSE raw

\* An edit of a line that read the sqyd box with the factor of an area.
lineRawAfterEditAsArea(unit, v) ==
  IF unit = "sqyd" THEN MulDiv(v, 100000, 119599)
  ELSE IF unit = "acre" THEN MulDiv(v, 10, 328084)
  ELSE MulDiv(v, 100000, 328084)

\* onMeasurementInput, kind line: drawnRawMeters after a positive edit; every
\* box but sqyd is read as linear feet (an acre value is in 1/10^7).
lineRawAfterEdit(unit, v) ==
  IF unit = "sqyd" THEN MulDiv(v, 100000, 109361)
  ELSE IF unit = "acre" THEN MulDiv(v, 10, 328084)
  ELSE MulDiv(v, 100000, 328084)

\* An emptied box that always reset the measurement.
rawAfterEmptiedAlways(raw, anyFilled) == 0

\* onMeasurementInput, no positive value typed: drawnRawMeters is reset unless
\* another box holds a positive value.
rawAfterEmptied(raw, anyFilled) == IF anyFilled THEN raw ELSE 0

\* An emptied box that left the perimeter alone.
perimeterAfterEmptiedKept(perim, anyFilled) == perim

\* onMeasurementInput, no positive value typed: drawnPerimeterMeters is reset
\* with drawnRawMeters unless another box holds a positive value.
perimeterAfterEmptied(perim, anyFilled) == IF anyFilled THEN perim ELSE 0

\* onMeasurementInput(unit, value) where the box shows text and parseFloat(value)
\* is v, in the units of the derived values (Null for NaN).
onMeasurementInputOf(unit, text, v) ==
  LET boxes == [munit EXCEPT ![unit] = text]
  IN
  /\ active = unit
  /\ lastOp' = "onMeasurementInput"
  /\ wasDrawing' = isDrawing
  /\ hadCandidate' = (ptrDown # NoPtr)
  /\ UNCHANGED itemVars
  /\ IF v = Null \/ v <= 0 THEN
       LET anyFilled == \E u \in Units : u # unit /\ parseBox(boxes, u) > 0
       IN  /\ drawnRawMeters' = rawAfterEmptied(drawnRawMeters, anyFilled)
           /\ drawnPerimeterMeters' = perimeterAfterEmptied(drawnPerimeterMeters, anyFilled)
     ELSE IF drawnRawType = "line" THEN
       /\ drawnRawMeters' = lineRawAfterEdit(unit, v)
       /\ UNCHANGED drawnPerimeterMeters
     ELSE
       /\ drawnRawMeters' = areaRawAfterEdit(drawnRawMeters, unit, v)
       /\ drawnPerimeterMeters' =
            IF unit = "linft" THEN MulDiv(v, 100000, 328084)
            ELSE drawnPerimeterMeters
  /\ drawnRawType' = typeAfterEdit(drawnRawType, unit)
  /\ munit' = updateCalc(drawnRawMeters', drawnPerimeterMeters', drawnRawType',
                         boxes, active)
  /\ toast' = ""
  /\ UNCHANGED <<mapLoaded, sessionVars, pointerVars, active, accepted>>

\* The user types value into the focused box: the browser sets the text and
\* then calls onMeasurementInput(unit, value).
onMeasurementInput(unit, value) ==
  onMeasurementInputOf(unit, value, parseBox([munit EXCEPT ![unit] = value], unit))

OnMeasurementInput == \E unit \in Units, value \in Typed : onMeasurementInput(unit, value)

\* setRawMetersFromAreaAndUnit(area, unit), area > 0: the raw measurement of
\* a saved area (in the precision of the unit's box) and its kind.
setRawMetersFromAreaAndUnit(area, unit) ==
  [raw  |-> IF unit = "sqft" THEN MulDiv(area * BoxScale(unit), 10000, 107639)
            ELSE IF unit = "sqyd" THEN MulDiv(area * BoxScale(unit), 100000, 119599)
            ELSE IF unit = "acre" THEN MulDiv(area, 404686, 1000)
            ELSE MulDiv(area * BoxScale(unit), 100000, 328084),
   type |-> IF unit = "linft" THEN "line" ELSE "area"]

\* Saved quotes: q.area and q.unit of the first line item, q.polygon_geojson
\* the geometry drawn when the quote was saved or null; they hold no
\* line_items, so that loadQuote restores the one legacy item.
SavedPolygon ==
  [type |-> "Polygon",
   coordinates |-> <<unproject(0, 0), unproject(12, 0), unproject(0, 12), unproject(0, 0)>>]
SavedQuotes ==
  [area : {0, 10000}, unit : {"sqft", "linft"}, polygon_geojson : {NoFeature, SavedPolygon}]

\* loadQuote(id), the quote fetched: the measurement is restored from q.area
\* and q.unit, the geometry from q.polygon_geojson when the map is loaded.
loadQuote(q) ==
  LET restored == IF q.area > 0
                  THEN setRawMetersFromAreaAndUnit(q.area, q.unit)
                  ELSE [raw |-> 0, type |-> drawnRawType]
      geo      == q.polygon_geojson
      hasGeo   == geo # NoFeature /\ mapLoaded
  IN  /\ drawnRawMeters' = restored.raw
      /\ drawnPerimeterMeters' = 0
      /\ drawnRawType' = IF hasGeo
                         THEN (IF geo.type = "LineString" THEN "line" ELSE "area")
                         ELSE restored.type
      /\ drawnFeature' = IF hasGeo THEN geo ELSE NoFeature
      /\ coordsShared' = FALSE
      /\ preview' = IF hasGeo THEN preview ELSE EmptyPreview
      /\ munit' = updateCalc(drawnRawMeters', drawnPerimeterMeters', drawnRawType',
                             munit, active)
      /\ toast' = "Quote loaded"
      /\ lastOp' = "loadQuote"
      /\ wasDrawing' = isDrawing
      /\ hadCandidate' = (ptrDown # NoPtr)
      /\ lineItems' = <<newLineItem(1, "pressure-washing", q.area, q.unit, 0, 1)>>
      /\ UNCHANGED lineItemCalcTimer
      /\ UNCHANGED <<mapLoaded, isDrawing, drawMode, trackedPoints, pointerVars,
                     active, accepted>>

\* loadQuote(id), the fetch failed: nothing but the toast.
loadQuoteFailed ==
  /\ toast' = "Could not load quote"
  /\ lastOp' = "loadQuote"
  /\ wasDrawing' = isDrawing
  /\ hadCandidate' = (ptrDown # NoPtr)
  /\ UNCHANGED itemVars
  /\ UNCHANGED <<mapLoaded, sessionVars, rawVars, pointerVars, boxVars, accepted>>

LoadQuote == loadQuoteFailed \/ \E q \in SavedQuotes : loadQuote(q)

\* The 'change' listener of the markup field: () => updateCalc().
OnMarkupChange ==
  /\ munit' = updateCalc(drawnRawMeters, drawnPerimeterMeters, drawnRawType, munit, active)
  /\ toast' = ""
  /\ lastOp' = "updateCalc"
  /\ wasDrawing' = isDrawing
  /\ hadCandidate' = (ptrDown # NoPtr)
  /\ UNCHANGED itemVars
  /\ UNCHANGED <<mapLoaded, sessionVars, rawVars, pointerVars, active, accepted>>

\* A change in the form of line item i: the user sets its quantity.
\* onLineItemChange() reads the form into lineItems at once and
\* restarts the 150 ms timer of updateCalc().
ItemEdits == {<<"qty", 2>>}
onLineItemChange(i, field, value) ==
  /\ i \in 1..Len(lineItems)
  /\ lineItems' = [lineItems EXCEPT ![i] = [lineItems[i] EXCEPT ![field] = value]]
  /\ lineItemCalcTimer' = TRUE
  /\ toast' = ""
  /\ lastOp' = "onLineItemChange"
  /\ wasDrawing' = isDrawing
  /\ hadCandidate' = (ptrDown # NoPtr)
  /\ UNCHANGED <<mapLoaded, sessionVars, rawVars, pointerVars, boxVars, accepted>>

OnLineItemChange == \E e \in ItemEdits : onLineItemChange(1, e[1], e[2])

\* The timer of onLineItemChange fires: updateCalc().
lineItemCalcTimerFires ==
  /\ lineItemCalcTimer
  /\ lineItemCalcTimer' = FALSE
  /\ munit' = updateCalc(drawnRawMeters, drawnPerimeterMeters, drawnRawType, munit, active)
  /\ toast' = ""
  /\ lastOp' = "lineItemCalcTimer"
  /\ wasDrawing' = isDrawing
  /\ hadCandidate' = (ptrDown # NoPtr)
  /\ UNCHANGED <<mapLoaded, sessionVars, rawVars, pointerVars, active, accepted, lineItems>>

\* getMeasurementByUnit(unit): the positive number the box shows, else the
\* value derived from a raw measurement, else 0 (m[unit] || 0).
getMeasurementByUnit(unit) ==
  LET typed == parseBox(munit, unit)
      m     == getAllMeasurements(drawnRawMeters, drawnPerimeterMeters, drawnRawType, munit)
  IN  IF typed # Null /\ typed > 0 THEN typed
      ELSE IF drawnRawMeters > 0 /\ m[unit] # Null THEN m[unit]
      ELSE 0

\* A 'use measurement' that took the price from the map too.
itemWithAreaAndPrice(item, val) ==
  [item EXCEPT !.area = MulDiv(val, 1, IF item.unit = "acre" THEN 1000 ELSE 100),
               !.price = 0]

\* useMapForItem: item.area = parseFloat(val.toFixed(unit === 'acre' ? 4 : 1)).
itemWithArea(item, val) ==
  [item EXCEPT !.area = MulDiv(val, 1, IF item.unit = "acre" THEN 1000 ELSE 100)]

\* useMapForItem(id), the button of the line item at place i.  The form is
\* rendered from lineItems and read back by updateCalc(): every value is one
\* of the options of its select, so that it comes back as it was.
useMapForItem(i) ==
  LET item == lineItems[i]
      val  == getMeasurementByUnit(item.unit)
  IN  /\ lastOp' = "useMapForItem"
      /\ wasDrawing' = isDrawing
      /\ hadCandidate' = (ptrDown # NoPtr)
      /\ IF val = 0
         THEN /\ toast' = "No measurement yet - draw on map first"
              /\ UNCHANGED <<lineItems, munit>>
         ELSE /\ lineItems' = [lineItems EXCEPT ![i] = itemWithArea(item, val)]
              /\ munit' = updateCalc(drawnRawMeters, drawnPerimeterMeters,
                                     drawnRawType, munit, active)
              /\ toast' = "applied"
      /\ UNCHANGED <<mapLoaded, sessionVars, rawVars, pointerVars, active, accepted,
                     lineItemCalcTimer>>

UseMapForItem == \E i \in 1..Len(lineItems) : useMapForItem(i)

\* Changes in the form of any line item: its unit or its price.
ItemFormEdits == {<<"unit", "sqft">>, <<"unit", "linft">>, <<"unit", "acre">>, <<"price", 1250>>}
OnAnyLineItemChange ==
  \E i \in 1..Len(lineItems), e \in ItemFormEdits :
    lineItems[i][e[1]] # e[2] /\ onLineItemChange(i, e[1], e[2])

\* ----------------------------------------------------------- specifications
\* The drawing session under every pointer input, the boxes left alone.
Next ==
  \/ OnMapLoad
  \/ PointerDown
  \/ PointerUp
  \/ StartDrawing
  \/ finishDrawing
  \/ cancelDrawing
  \/ undoLastPoint
  \/ clearDrawing

Spec == Init /\ [][Next]_vars

\* The drawing session with a user who does not give up: whatever else
\* happens, the map loads, and whenever the steps of a plain two-point drawing
\* are possible again and again (start, pointer down, tap at the first corner,
\* pointer down, tap at the second corner, finish) each of them is taken in
\* the end.  The pointer goes down at one place with the left button and
\* comes up there or 12 pixels to the right in time, so that a session can
\* hold the same point twice; every step of the plain drawing is a step of
\* NextRecover.
FirstCorner == unproject(100 - RectLeft, 100 - RectTop)
SecondCorner == unproject(112 - RectLeft, 100 - RectTop)

DownAfter(pts) == isDrawing /\ trackedPoints = pts /\ pointerdown(<<100, 100>>, 0)
TapFirstCorner ==
  /\ isDrawing /\ ptrDown # NoPtr /\ trackedPoints = <<>>
  /\ pointerup(<<100, 100>>, 0, TRUE, 500)
TapSecondCorner ==
  /\ isDrawing /\ ptrDown # NoPtr /\ trackedPoints = <<FirstCorner>>
  /\ pointerup(<<112, 100>>, 0, TRUE, 500)
FinishTwoCorners ==
  isDrawing /\ trackedPoints = <<FirstCorner, SecondCorner>> /\ finishDrawing

DownRecover == pointerdown(<<100, 100>>, 0)
TapRecover == \E p \in {<<100, 100>>, <<112, 100>>} : pointerup(p, 0, TRUE, 500)

NextRecover ==
  \/ OnMapLoad
  \/ DownRecover
  \/ TapRecover
  \/ StartDrawing
  \/ finishDrawing
  \/ cancelDrawing
  \/ undoLastPoint
  \/ clearDrawing

SpecRecover ==
  /\ Init
  /\ [][NextRecover]_vars
  /\ WF_vars(OnMapLoad)
  /\ SF_vars(mapLoaded /\ StartDrawing)
  /\ SF_vars(DownAfter(<<>>))
  /\ SF_vars(TapFirstCorner)
  /\ SF_vars(DownAfter(<<FirstCorner>>))
  /\ SF_vars(TapSecondCorner)
  /\ SF_vars(FinishTwoCorners)

\* The measurement boxes next to one drawing: the user taps the corners of
\* one triangle, always in the same order, and edits the boxes at any time.
CornerPixels == <<<<100, 100>>, <<112, 100>>, <<100, 112>>>>
NextCorner == CornerPixels[(Len(trackedPoints) % 3) + 1]

DownOnCorner == pointerdown(NextCorner, 0)
TapCorner == pointerup(NextCorner, 0, TRUE, 500)

NextEdit ==
  \/ OnMapLoad
  \/ DownOnCorner
  \/ TapCorner
  \/ StartDrawing
  \/ finishDrawing
  \/ cancelDrawing
  \/ undoLastPoint
  \/ clearDrawing
  \/ Focus
  \/ OnMeasurementInput

SpecEdit == Init /\ [][NextEdit]_vars

\* The measurement next to the saved quotes: nothing is drawn, the boxes are
\* edited, and a saved quote is loaded or the measurement cleared at any time.
NextQuote ==
  \/ OnMapLoad
  \/ clearDrawing
  \/ Focus
  \/ OnMeasurementInput
  \/ LoadQuote

SpecQuote == Init /\ [][NextQuote]_vars

\* The debounced recalculation next to everything else: one drawing, the
\* sqft and linft boxes focused and edited, the line item form changed, and
\* the timer firing at any time.
TimerUnits == {"sqft", "linft"}
FocusTimerUnits == Focus /\ active' \in TimerUnits \cup {"none"}
EditTimerUnits ==
  \E unit \in TimerUnits, value \in Typed : onMeasurementInput(unit, value)

NextTimer ==
  \/ OnMapLoad
  \/ DownOnCorner
  \/ TapCorner
  \/ StartDrawing
  \/ finishDrawing
  \/ cancelDrawing
  \/ undoLastPoint
  \/ clearDrawing
  \/ FocusTimerUnits
  \/ EditTimerUnits
  \/ OnLineItemChange
  \/ lineItemCalcTimerFires

SpecTimer == Init /\ [][NextTimer]_vars

\* The line items next to the measurement: two items in the form (the second
\* added and filled in by hand), the sqft and linft boxes edited, any item's
\* unit or price changed and its 'use measurement' button pressed.
SecondLineItem == newLineItem(2, "sealcoating", 500, "linft", 1250, 2)

InitItems ==
  /\ mapLoaded = FALSE
  /\ drawnFeature = NoFeature
  /\ coordsShared = FALSE
  /\ drawnRawMeters = 0
  /\ drawnPerimeterMeters = 0
  /\ drawnRawType = "area"
  /\ isDrawing = FALSE
  /\ drawMode = "polygon"
  /\ trackedPoints = <<>>
  /\ ptrDown = NoPtr
  /\ munit = [u \in Units |-> Blank]
  /\ active = "none"
  /\ preview = EmptyPreview
  /\ toast = ""
  /\ lastOp = "init"
  /\ wasDrawing = FALSE
  /\ hadCandidate = FALSE
  /\ accepted = <<>>
  /\ lineItems = <<FirstLineItem, SecondLineItem>>
  /\ lineItemCalcTimer = FALSE

NextItems ==
  \/ FocusTimerUnits
  \/ EditTimerUnits
  \/ OnAnyLineItemChange
  \/ lineItemCalcTimerFires
  \/ UseMapForItem

SpecItems == InitItems /\ [][NextItems]_vars

\* The round trip of a measurement through its own values: any of these raw
\* measurements (thousandths of a metre or square metre), either kind, with or
\* without a perimeter, the boxes showing it; the user types into a box the
\* very value getAllMeasurements() returns for it.
RawValues == {6018, 18108, 20547, 92903, 304800, 404686}
Perimeters == {0, 20547}

InitRoundTrip ==
  /\ mapLoaded = FALSE
  /\ drawnFeature = NoFeature
  /\ coordsShared = FALSE
  /\ drawnRawMeters \in RawValues
  /\ drawnPerimeterMeters \in Perimeters
  /\ drawnRawType \in {"area", "line"}
  /\ isDrawing = FALSE
  /\ drawMode = "polygon"
  /\ trackedPoints = <<>>
  /\ ptrDown = NoPtr
  /\ munit = updateCalc(drawnRawMeters, drawnPerimeterMeters, drawnRawType,
                        [u \in Units |-> Blank], "none")
  /\ active = "none"
  /\ preview = EmptyPreview
  /\ toast = ""
  /\ lastOp = "init"
  /\ wasDrawing = FALSE
  /\ hadCandidate = FALSE
  /\ accepted = <<>>
  /\ lineItems = <<FirstLineItem>>
  /\ lineItemCalcTimer = FALSE

\* The box text is kept at the precision of the box, the value parsed is the
\* derived value itself.
RetypeDerived ==
  \E unit \in Units :
    LET v == getAllMeasurements(drawnRawMeters, drawnPerimeterMeters,
                                drawnRawType, munit)[unit]
    IN  /\ v # Null
        /\ v > 0
        /\ onMeasurementInputOf(unit, fmt4(v, unit), v)

NextRoundTrip ==
  \/ Focus
  \/ RetypeDerived

SpecRoundTrip == InitRoundTrip /\ [][NextRoundTrip]_vars

\* Emptying the boxes of a measurement: the state after a polygon, after a
\* line, after a line that followed a polygon, or with nothing measured (in
\* either kind); the boxes show the measurement, and the user types a number
\* or an empty or zero text into the box that has the focus.
Measured ==
  {<<0, 0, "area">>, <<0, 0, "line">>, <<18108, 20547, "area">>,
   <<6018, 0, "line">>, <<6018, 20547, "line">>}
NonPositive == {Blank, 0}

InitEmpty ==
  /\ mapLoaded = FALSE
  /\ drawnFeature = NoFeature
  /\ coordsShared = FALSE
  /\ \E m \in Measured :
       /\ drawnRawMeters = m[1]
       /\ drawnPerimeterMeters = m[2]
       /\ drawnRawType = m[3]
  /\ isDrawing = FALSE
  /\ drawMode = "polygon"
  /\ trackedPoints = <<>>
  /\ ptrDown = NoPtr
  /\ munit = updateCalc(drawnRawMeters, drawnPerimeterMeters, drawnRawType,
                        [u \in Units |-> Blank], "none")
  /\ active = "none"
  /\ preview = EmptyPreview
  /\ toast = ""
  /\ lastOp = "init"
  /\ wasDrawing = FALSE
  /\ hadCandidate = FALSE
  /\ accepted = <<>>
  /\ lineItems = <<FirstLineItem>>
  /\ lineItemCalcTimer = FALSE

TypeOrEmptyBox ==
  \E unit \in Units, value \in Typed \cup NonPositive : onMeasurementInput(unit, value)

NextEmpty ==
  \/ Focus
  \/ TypeOrEmptyBox

SpecEmpty == InitEmpty /\ [][NextEmpty]_vars

\* getAllMeasurements() with nothing drawn and no raw measurement: the four
\* boxes start with any of these texts (empty, 0, or 900.0 sq ft, 900.0
\* lin ft, 90.00 sq yd, 0.9000 acre), and updateCalc() reads them.
BoxTexts == {Blank, 0, 9000}

InitDerive ==
  /\ mapLoaded = FALSE
  /\ drawnFeature = NoFeature
  /\ coordsShared = FALSE
  /\ drawnRawMeters = 0
  /\ drawnPerimeterMeters = 0
  /\ drawnRawType = "area"
  /\ isDrawing = FALSE
  /\ drawMode = "polygon"
  /\ trackedPoints = <<>>
  /\ ptrDown = NoPtr
  /\ munit \in [Units -> BoxTexts]
  /\ active = "none"
  /\ preview = EmptyPreview
  /\ toast = ""
  /\ lastOp = "init"
  /\ wasDrawing = FALSE
  /\ hadCandidate = FALSE
  /\ accepted = <<>>
  /\ lineItems = <<FirstLineItem>>
  /\ lineItemCalcTimer = FALSE

NextDerive ==
  \/ OnMarkupChange
  \/ Focus

SpecDerive == InitDerive /\ [][NextDerive]_vars

\* The geometry helpers on their own: a polygon drawing holds any MaxPoints
\* of these corners (a 2 x 3 grid of taps 12 pixels apart, in any order, with
\* repeats), and the user finishes it or takes points back first.
RingPoints == {unproject(x, y) : x \in {0, 12, 24}, y \in {0, 12}}

InitRing ==
  /\ mapLoaded = TRUE
  /\ drawnFeature = NoFeature
  /\ coordsShared = FALSE
  /\ drawnRawMeters = 0
  /\ drawnPerimeterMeters = 0
  /\ drawnRawType = "area"
  /\ isDrawing = TRUE
  /\ drawMode = "polygon"
  /\ trackedPoints \in [1..MaxPoints -> RingPoints]
  /\ ptrDown = NoPtr
  /\ munit = [u \in Units |-> Blank]
  /\ active = "none"
  /\ preview = updateDrawPreview(trackedPoints, drawMode)
  /\ toast = ""
  /\ lastOp = "pointerup"
  /\ wasDrawing = TRUE
  /\ hadCandidate = TRUE
  /\ accepted = trackedPoints
  /\ lineItems = <<FirstLineItem>>
  /\ lineItemCalcTimer = FALSE

NextRing ==
  \/ finishDrawing
  \/ undoLastPoint

SpecRing == InitRing /\ [][NextRing]_vars

\* =================================================================== claims
\* The toasts by which finishDrawing reports its outcome.
InsufficientToast == "Tap at least 2 points on the map first"
AreaFailedToast == "Area calculation failed - try drawing again"
LengthFailedToast == "Length calculation failed - try drawing again"
AreaToast == "Area measured! Set your price below"
TwoPointToast == "2 points -> measured as line. Use 3+ for area."
LengthToast == "Length measured! Set your price below"
DegenerateToasts == {AreaFailedToast, LengthFailedToast}
SuccessToasts == {AreaToast, TwoPointToast, LengthToast}

Polygon(ring) == [type |-> "Polygon", coordinates |-> ring]
LineString(coords) == [type |-> "LineString", coordinates |-> coords]

\* C1: a finishDrawing() that finds an area or a length <= 0 leaves the
\* session drawing, with the tracked points as they were.
C1_DegenerateFinishStaysDrawing ==
  (lastOp = "finishDrawing" /\ toast \in DegenerateToasts)
    => (isDrawing /\ trackedPoints = accepted)

\* C2: finishDrawing() while drawing with fewer than 2 tracked points reports
\* too few points, leaves the session drawing, and leaves the tracked points,
\* the mode, the stored feature and the raw measurement unchanged.
C2_InsufficientPointsChangesNothing ==
  [][(isDrawing /\ Len(trackedPoints) < 2 /\ lastOp' = "finishDrawing")
       => /\ toast' = InsufficientToast
          /\ isDrawing'
          /\ UNCHANGED <<trackedPoints, drawMode, drawnFeature, rawVars>>]_vars

\* A one-point finish refused while an earlier measurement is stored.
C2_Witness ==
  /\ lastOp = "finishDrawing"
  /\ toast = InsufficientToast
  /\ isDrawing
  /\ Len(trackedPoints) = 1
  /\ drawnFeature # NoFeature
  /\ drawnRawMeters > 0

\* C3 as stated: in polygon mode, finishDrawing() with exactly 2 points reports
\* too few points and the session stays drawing.
C3_TwoPointsInAreaModeRefused ==
  [][(isDrawing /\ drawMode = "polygon" /\ Len(trackedPoints) = 2
        /\ lastOp' = "finishDrawing")
       => (toast' = InsufficientToast /\ isDrawing')]_vars

\* C3, amended: in polygon mode, finishDrawing() with exactly 2 points that
\* differ succeeds, stores the LineString of the two points with a line
\* measurement and ends the drawing; with 3 or more points that enclose a
\* positive area it succeeds, stores the closed Polygon and ends the drawing.
C3_AreaModeFinish ==
  [][(isDrawing /\ drawMode = "polygon" /\ lastOp' = "finishDrawing")
       => /\ (Len(trackedPoints) = 2 /\ trackedPoints[1] # trackedPoints[2])
               => /\ toast' = TwoPointToast
                  /\ ~isDrawing'
                  /\ drawnFeature' = LineString(trackedPoints)
                  /\ drawnRawType' = "line"
                  /\ drawnRawMeters' > 0
          /\ (Len(trackedPoints) >= 3
                /\ polygonAreaMeters(Append(trackedPoints, trackedPoints[1])) > 0)
               => /\ toast' = AreaToast
                  /\ ~isDrawing'
                  /\ drawnFeature' = Polygon(Append(trackedPoints, trackedPoints[1]))
                  /\ drawnRawType' = "area"
                  /\ drawnRawMeters' > 0]_vars

\* Two points finished in polygon mode.
C3_Witness ==
  /\ lastOp = "finishDrawing"
  /\ toast = TwoPointToast
  /\ drawMode = "polygon"
  /\ drawnFeature.type = "LineString"
  /\ Len(drawnFeature.coordinates) = 2

\* C4: a successful finishDrawing() stores the Polygon of the tracked points
\* followed by the first one, with an area measurement and the perimeter of
\* that ring, exactly when the mode is polygon and 3 or more points are
\* tracked; every other success stores the LineString of the tracked points
\* in the order of their insertion, with a line measurement.
C4_GeometryChoice ==
  [][(isDrawing /\ lastOp' = "finishDrawing" /\ toast' \in SuccessToasts)
       => IF drawMode = "polygon" /\ Len(trackedPoints) >= 3
          THEN /\ drawnFeature' = Polygon(Append(trackedPoints, trackedPoints[1]))
               /\ drawnRawType' = "area"
               /\ drawnRawMeters' > 0
               /\ drawnPerimeterMeters' > 0
               /\ drawnPerimeterMeters' =
                    lineStringMeters(Append(trackedPoints, trackedPoints[1]))
          ELSE /\ Len(trackedPoints) >= 2
               /\ drawnFeature' = LineString(trackedPoints)
               /\ drawnRawType' = "line"
               /\ drawnRawMeters' > 0]_vars

\* A polygon just stored.
C4_Witness ==
  /\ lastOp = "finishDrawing"
  /\ toast = AreaToast
  /\ drawnFeature.type = "Polygon"
  /\ Len(drawnFeature.coordinates) = 4
  /\ drawnRawType = "area"

\* C5: after a successful finishDrawing() the session is not drawing, the
\* feature and the raw measurement are stored, and trackedPoints is empty.
C5_FinishedEmptiesTrackedPoints ==
  (lastOp = "finishDrawing" /\ toast \in SuccessToasts)
    => /\ ~isDrawing
       /\ drawnFeature # NoFeature
       /\ drawnRawMeters > 0
       /\ trackedPoints = <<>>

\* C6: startDrawing(mode) on the loaded map leaves the session drawing in that
\* mode, with no tracked point, no stored feature and no raw measurement.
C6_StartClearsPreviousResult ==
  [][\A mode \in Modes :
       (mapLoaded /\ startDrawing(mode))
         => /\ isDrawing'
            /\ drawMode' = mode
            /\ trackedPoints' = <<>>
            /\ drawnFeature' = NoFeature
            /\ drawnRawMeters' = 0]_vars

\* C7: startDrawing() while drawing resets: trackedPoints is the one list,
\* empty right after the start, it holds the points accepted since that start
\* and no other, and the feature of a later finish is made of those.
C7_StartResets ==
  /\ (lastOp = "startDrawing" /\ mapLoaded) => (isDrawing /\ trackedPoints = <<>>)
  /\ isDrawing => trackedPoints = accepted
  /\ (lastOp = "finishDrawing" /\ toast \in SuccessToasts)
       => /\ accepted # <<>>
          /\ drawnFeature.coordinates
               \in {accepted, Append(accepted, Head(accepted))}

\* A start that interrupted a drawing, just done.
C7_Witness ==
  /\ lastOp = "startDrawing"
  /\ wasDrawing
  /\ isDrawing
  /\ trackedPoints = <<>>

\* C8: after cancelDrawing() called while drawing, trackedPoints is empty, the
\* session is not drawing and no feature is stored.
C8_CancelLeavesNoFeature ==
  (lastOp = "cancelDrawing" /\ wasDrawing)
    => /\ trackedPoints = <<>>
       /\ ~isDrawing
       /\ drawnFeature = NoFeature

\* C9: after clearDrawing() the session is not drawing, trackedPoints is
\* empty, no feature is stored, the raw measurement and the perimeter are
\* zero, the preview is empty and the four unit boxes are blank.
C9_ClearResetsAll ==
  lastOp = "clearDrawing"
    => /\ ~isDrawing
       /\ trackedPoints = <<>>
       /\ drawnFeature = NoFeature
       /\ drawnRawMeters = 0
       /\ drawnPerimeterMeters = 0
       /\ drawnRawType = "area"
       /\ preview = EmptyPreview
       /\ \A u \in Units : munit[u] = Blank

\* A clear during a drawing, with the focus in a unit box.
C9_Witness ==
  /\ lastOp = "clearDrawing"
  /\ wasDrawing
  /\ active \in Units
  /\ \A u \in Units : munit[u] = Blank

\* C10: cancelDrawing() and clearDrawing() leave trackedPoints empty and the
\* session not drawing; while the session is not drawing no pointerdown or
\* pointerup changes trackedPoints, and only startDrawing() makes it drawing.
C10_NothingSurvivesCancel ==
  [][/\ lastOp' \in {"cancelDrawing", "clearDrawing"}
          => (trackedPoints' = <<>> /\ ~isDrawing')
     /\ (~isDrawing /\ lastOp' \in {"pointerdown", "pointerup"})
          => (UNCHANGED trackedPoints /\ ~isDrawing')
     /\ (~isDrawing /\ isDrawing') => lastOp' = "startDrawing"]_vars

\* A tap completed after a cancel: the candidate recorded before the cancel is
\* still there and no point was appended.
C10_Witness ==
  /\ lastOp = "pointerup"
  /\ ~isDrawing
  /\ ~wasDrawing
  /\ ptrDown # NoPtr
  /\ trackedPoints = <<>>
  /\ drawnFeature = NoFeature

\* The pixel distance, squared, between a pointerup at p and the candidate.
Dist2(p) == (p[1] - ptrDown.x) * (p[1] - ptrDown.x) + (p[2] - ptrDown.y) * (p[2] - ptrDown.y)

\* trackedPoints' is trackedPoints with exactly one point more.
OnePointAppended ==
  /\ Len(trackedPoints') = Len(trackedPoints) + 1
  /\ SubSeq(trackedPoints', 1, Len(trackedPoints)) = trackedPoints

\* C11: a pointerup that finds a candidate appends exactly one point when its
\* button is 0, its target is the canvas, it is at most 12 pixels from the
\* candidate and at most 500 ms after it, and appends nothing otherwise.
C11_TapIffFourConditions ==
  [][(lastOp' = "pointerup" /\ ptrDown # NoPtr)
       => \A e \in PointerUpEvents :
            pointerup(e[1], e[2], e[3], e[4])
              => IF e[2] = 0 /\ e[3] /\ Dist2(e[1]) <= 12 * 12 /\ e[4] <= 500
                 THEN OnePointAppended
                 ELSE UNCHANGED trackedPoints]_vars

\* C12: a pointerup further than 12 pixels from the candidate, or later than
\* 500 ms after it, shows no message and leaves trackedPoints, the mode,
\* isDrawing, the stored feature and the raw measurement unchanged.
C12_PanAndLongPressChangeNothing ==
  [][(lastOp' = "pointerup" /\ ptrDown # NoPtr)
       => \A e \in PointerUpEvents :
            ((Dist2(e[1]) > 12 * 12 \/ e[4] > 500)
               /\ pointerup(e[1], e[2], e[3], e[4]))
              => /\ toast' = ""
                 /\ UNCHANGED <<trackedPoints, drawMode, isDrawing, drawnFeature, rawVars>>]_vars

\* A pointerup that took the candidate while drawing and appended nothing, a
\* measurement being stored and a point tracked.
C12_Witness ==
  /\ lastOp = "pointerup"
  /\ wasDrawing
  /\ hadCandidate
  /\ ptrDown = NoPtr
  /\ isDrawing
  /\ Len(trackedPoints) = 1
  /\ Len(preview.points) = 1
  /\ drawnFeature # NoFeature

\* C13: after every pointerup no candidate is recorded.
C13_PointerUpClearsCandidate ==
  lastOp = "pointerup" => ptrDown = NoPtr

\* C14: a pointerdown records its position as the candidate when its button is
\* 0 and the session is drawing, and otherwise leaves the candidate as it is;
\* in both cases it leaves the session, the measurement and the boxes alone.
C14_PointerDownRecordsWhenDrawing ==
  [][lastOp' = "pointerdown"
       => \A p \in DownPixels, button \in Buttons :
            pointerdown(p, button)
              => /\ IF button = 0 /\ isDrawing
                    THEN ptrDown' = [x |-> p[1], y |-> p[2]]
                    ELSE UNCHANGED ptrDown
                 /\ UNCHANGED <<sessionVars, rawVars, boxVars>>]_vars

\* A pointerdown that recorded a candidate where there was none.
C14_Witness ==
  /\ lastOp = "pointerdown"
  /\ wasDrawing
  /\ ~hadCandidate
  /\ ptrDown # NoPtr

\* C15: undoLastPoint() while drawing with a point tracked removes the last
\* point and keeps the others in their order; with no point tracked, or while
\* not drawing, it changes nothing.
C15_UndoRemovesLast ==
  [][lastOp' = "undoLastPoint"
       => IF isDrawing /\ trackedPoints # <<>>
          THEN /\ trackedPoints = Append(trackedPoints', trackedPoints[Len(trackedPoints)])
               /\ UNCHANGED <<isDrawing, drawMode, drawnFeature, rawVars, ptrDown>>
          ELSE UNCHANGED <<sessionVars, rawVars, ptrDown, boxVars>>]_vars

\* The third of three points just removed, the two left being different.
C15_Witness ==
  /\ lastOp = "undoLastPoint"
  /\ toast = "Point removed"
  /\ Len(trackedPoints) = 2
  /\ trackedPoints[1] # trackedPoints[2]
  /\ preview.points = trackedPoints

\* The four values getAllMeasurements() returns in the current state.
Derived == getAllMeasurements(drawnRawMeters, drawnPerimeterMeters, drawnRawType, munit)

\* C16: for a line of positive length getAllMeasurements() returns sqft and
\* acre null, linft the length times 3.28084 and sqyd the length times
\* 1.09361, whatever drawnPerimeterMeters holds.
C16_LineMeasurements ==
  (drawnRawType = "line" /\ drawnRawMeters > 0)
    => /\ Derived.sqft = Null
       /\ Derived.acre = Null
       /\ Derived.linft = MulDiv(drawnRawMeters, 328084, 100000)
       /\ Derived.sqyd = MulDiv(drawnRawMeters, 109361, 100000)

\* A line just measured while the perimeter of an earlier polygon is still
\* there: the sqft and acre boxes are empty.
C16_Witness ==
  /\ lastOp = "finishDrawing"
  /\ drawnRawType = "line"
  /\ drawnFeature.type = "LineString"
  /\ drawnRawMeters > 0
  /\ drawnPerimeterMeters > 0
  /\ active = "none"
  /\ munit["sqft"] = Blank
  /\ munit["acre"] = Blank
  /\ munit["linft"] # Blank
  /\ munit["sqyd"] # Blank

\* A step of onMeasurementInput: the last handler is onMeasurementInput and
\* the focus has not moved.
EditStep == lastOp' = "onMeasurementInput" /\ active' = active

\* C17: onMeasurementInput, with any unit and value, leaves drawnRawType as it
\* is; drawnRawType changes only in a successful finishDrawing() or in
\* clearDrawing().  Loading a saved quote changes it as well.
C17_EditKeepsKind ==
  [][/\ EditStep => UNCHANGED drawnRawType
     /\ drawnRawType' # drawnRawType
          => \/ lastOp' = "clearDrawing"
             \/ lastOp' = "finishDrawing" /\ toast' \in SuccessToasts]_vars

\* C18: a positive value typed into the linft box while the kind is area sets
\* drawnPerimeterMeters to the value / 3.28084 and leaves drawnRawMeters, and
\* with it the sqft, sqyd and acre values derived from it, unchanged.
C18_LinftEditOfAnArea ==
  [][(EditStep /\ active = "linft" /\ drawnRawType = "area")
       => \A value \in Typed :
            (value > 0 /\ onMeasurementInput("linft", value))
              => /\ drawnPerimeterMeters' = MulDiv(value * 100, 100000, 328084)
                 /\ UNCHANGED <<drawnRawMeters, drawnRawType>>
                 /\ drawnRawMeters > 0
                      => \A u \in {"sqft", "sqyd", "acre"} : Derived'[u] = Derived[u]]_vars

\* The perimeter of a drawn polygon replaced by 1000 lin ft.
C18_Witness ==
  /\ lastOp = "onMeasurementInput"
  /\ active = "linft"
  /\ munit["linft"] = 10000
  /\ drawnRawType = "area"
  /\ drawnFeature.type = "Polygon"
  /\ drawnRawMeters = polygonAreaMeters(drawnFeature.coordinates)
  /\ drawnPerimeterMeters = MulDiv(1000000, 100000, 328084)
  /\ drawnPerimeterMeters # lineStringMeters(drawnFeature.coordinates)

\* The text of box u that a raw measurement stands for.
DerivedText(raw, perim, type, u) ==
  IF raw > 0 THEN
    IF type = "line" THEN
      IF u = "linft" THEN fmt4(MulDiv(raw, 328084, 100000), u)
      ELSE IF u = "sqyd" THEN fmt4(MulDiv(raw, 109361, 100000), u)
      ELSE Blank
    ELSE
      IF u = "sqft" THEN fmt4(MulDiv(raw, 107639, 10000), u)
      ELSE IF u = "sqyd" THEN fmt4(MulDiv(raw, 119599, 100000), u)
      ELSE IF u = "acre" THEN fmt4(MulDiv(raw, 1000000, 404686), u)
      ELSE IF perim > 0 THEN fmt4(MulDiv(perim, 328084, 100000), u)
      ELSE Blank
  ELSE IF u = "linft" /\ perim > 0 THEN fmt4(MulDiv(perim, 328084, 100000), u)
  ELSE Blank

\* C19: after onMeasurementInput every box but the focused one holds the text
\* derived from the new raw measurement, and the focused box holds what was
\* typed.
C19_EditRewritesOtherBoxes ==
  [][EditStep
       => \A unit \in Units, value \in Typed :
            onMeasurementInput(unit, value)
              => /\ munit'[unit] = value
                 /\ \A u \in Units \ {unit} :
                      munit'[u] = DerivedText(drawnRawMeters', drawnPerimeterMeters',
                                              drawnRawType', u)]_vars

\* 100 sq yd typed: the sqft and acre boxes show what that makes.
C19_Witness ==
  /\ lastOp = "onMeasurementInput"
  /\ active = "sqyd"
  /\ munit["sqyd"] = 10000
  /\ munit["sqft"] = 9000
  /\ munit["acre"] = 207
  /\ munit["linft"] = Blank

\* C20: with nothing drawn and no positive raw measurement,
\* getAllMeasurements() takes the values from the first box holding a positive
\* value in the order sqft, sqyd, acre, linft, and derives the others from it;
\* when only the linft box is positive sqft, sqyd and acre are null.
C20_ManualEntryOrder ==
  (drawnFeature = NoFeature /\ drawnRawMeters = 0)
    => LET sqftVal  == parseBox(munit, "sqft")
           sqydVal  == parseBox(munit, "sqyd")
           acreVal  == parseBox(munit, "acre")
           linftVal == parseBox(munit, "linft")
       IN  /\ sqftVal > 0
                => /\ Derived.sqft = sqftVal
                   /\ Derived.sqyd = MulDiv(sqftVal, 1, 9)
                   /\ Derived.acre = MulDiv(sqftVal, 10000, 43560)
           /\ (~(sqftVal > 0) /\ sqydVal > 0)
                => /\ Derived.sqyd = sqydVal
                   /\ Derived.sqft = sqydVal * 9
                   /\ Derived.acre = MulDiv(sqydVal * 9, 10000, 43560)
           /\ (~(sqftVal > 0) /\ ~(sqydVal > 0) /\ acreVal > 0)
                => /\ Derived.acre = acreVal
                   /\ Derived.sqft = MulDiv(acreVal, 43560, 10000)
                   /\ Derived.sqyd = MulDiv(MulDiv(acreVal, 43560, 10000), 1, 9)
           /\ (~(sqftVal > 0) /\ ~(sqydVal > 0) /\ ~(acreVal > 0) /\ linftVal > 0)
                => /\ Derived.linft = linftVal
                   /\ Derived.sqft = Null
                   /\ Derived.sqyd = Null
                   /\ Derived.acre = Null

\* updateCalc() has run while the sqft box holds 900.0 and the focused sqyd
\* box 90.00: the acre box shows 900 sq ft, not 90 sq yd, and the linft box
\* is empty.
C20_Witness ==
  /\ lastOp = "updateCalc"
  /\ drawnFeature = NoFeature
  /\ drawnRawMeters = 0
  /\ active = "sqyd"
  /\ munit["sqft"] = 9000
  /\ munit["sqyd"] = 9000
  /\ munit["acre"] = MulDiv(MulDiv(9000 * 100, 10000, 43560), 1, 1000)
  /\ munit["acre"] # MulDiv(MulDiv(9000 * 10 * 9, 10000, 43560), 1, 1000)
  /\ munit["linft"] = Blank

\* The four values of no measurement at all.
NoMeasurements == [sqft |-> 0, linft |-> 0, sqyd |-> 0, acre |-> 0]

\* C21: when onMeasurementInput leaves no positive value in any of the four
\* boxes, drawnRawMeters and drawnPerimeterMeters are both 0, every value
\* getAllMeasurements() returns is 0 and every box but the focused one is empty.
C21_EmptiedBoxesResetRaw ==
  [][(EditStep /\ \A u \in Units : ~(parseBox(munit', u) > 0))
       => /\ drawnRawMeters' = 0
          /\ drawnPerimeterMeters' = 0
          /\ getAllMeasurements(drawnRawMeters', drawnPerimeterMeters',
                                drawnRawType', munit') = NoMeasurements
          /\ \A u \in Units \ {active} : munit'[u] = Blank]_vars

\* The linft box, the only one still filled beside a drawn feature, has just
\* been emptied: nothing is left of the measurement.
C21_Witness ==
  /\ lastOp = "onMeasurementInput"
  /\ active = "linft"
  /\ munit = [u \in Units |-> Blank]
  /\ drawnRawMeters = 0
  /\ drawnPerimeterMeters = 0
  /\ drawnFeature # NoFeature

\* Two values equal within one part in a thousand (the integer model rounds
\* where the code computes in doubles).
WithinTolerance(a, b) == Abs(a - b) * 1000 <= a

\* C22: typing into a box the value getAllMeasurements() returns for it, for
\* an area or a line and any unit whose value is not null, leaves the four
\* values getAllMeasurements() returns as they were, within tolerance.
C22_RoundTrip ==
  [][EditStep
       => \A u \in Units :
            LET before == Derived[u]
                after  == getAllMeasurements(drawnRawMeters', drawnPerimeterMeters',
                                             drawnRawType', munit')[u]
            IN  IF before = Null THEN after = Null
                ELSE after # Null /\ WithinTolerance(before, after)]_vars

\* The sqyd value of a line of 304.8 m has just been typed back into its box:
\* the line is still 1000 lin ft.
C22_Witness ==
  /\ lastOp = "onMeasurementInput"
  /\ drawnRawType = "line"
  /\ active = "sqyd"
  /\ Abs(drawnRawMeters - 304800) <= 1
  /\ munit["linft"] = 10000
  /\ munit["sqyd"] = 33333

\* C23: with no drawnFeature and no raw measurement (drawnRawMeters and
\* drawnPerimeterMeters 0), typing 1000 into the sqft box makes the sqyd box
\* 111.11 and the acre box 0.023 and leaves the linft box empty, however the
\* state was reached.
C23_SqftOnEmptyState ==
  [][(/\ EditStep
      /\ active = "sqft"
      /\ munit'["sqft"] = 10000
      /\ drawnFeature = NoFeature
      /\ drawnRawMeters = 0
      /\ drawnPerimeterMeters = 0)
       => /\ munit'["sqyd"] = 11111
          /\ munit'["acre"] = 230
          /\ munit'["linft"] = Blank
          /\ getAllMeasurements(drawnRawMeters', drawnPerimeterMeters',
                                drawnRawType', munit').linft = Null]_vars

\* A step of the handler op (a move of the focus leaves lastOp alone).
HandlerStep(op) == lastOp' = op /\ active' = active

\* C24: after finishDrawing, clearDrawing and onMeasurementInput every box that
\* is not empty shows the text derived from the raw measurement (to the last
\* digit shown), and no box shows a positive value when drawnRawMeters and
\* drawnPerimeterMeters are both 0.
C24_BoxesConsistentWithRaw ==
  [][(\E op \in {"finishDrawing", "clearDrawing", "onMeasurementInput"} : HandlerStep(op))
       => /\ \A u \in Units :
               LET text == DerivedText(drawnRawMeters', drawnPerimeterMeters',
                                       drawnRawType', u)
               IN  \/ munit'[u] = Blank
                   \/ text # Blank /\ Abs(munit'[u] - text) <= 1
          /\ (drawnRawMeters' = 0 /\ drawnPerimeterMeters' = 0)
               => \A u \in Units : ~(munit'[u] > 0)]_vars

\* C25: after a successful finishDrawing() that yields a line
\* drawnPerimeterMeters is 0, whatever it was before, and after one that
\* yields an area it is the path length of the closed ring.
C25_FinishReplacesPerimeter ==
  [][(HandlerStep("finishDrawing") /\ toast' \in SuccessToasts)
       => /\ drawnRawType' = "line" => drawnPerimeterMeters' = 0
          /\ drawnRawType' = "area"
               => drawnPerimeterMeters' = lineStringMeters(drawnFeature'.coordinates)]_vars

\* C26: whenever the timer of onLineItemChange fires, between any other
\* handlers, it leaves the raw measurement, the drawing session and the
\* pointer candidate as they were, and the boxes it leaves are those a second
\* updateCalc() would leave.
C26_TimerIsHarmless ==
  [][HandlerStep("lineItemCalcTimer")
       => /\ UNCHANGED <<rawVars, sessionVars, pointerVars, active, lineItems>>
          /\ munit' = updateCalc(drawnRawMeters', drawnPerimeterMeters',
                                 drawnRawType', munit', active')]_vars

\* The timer has fired while points are being tapped, a perimeter typed by
\* hand is the only measurement and no box is focused.
C26_Witness ==
  /\ lastOp = "lineItemCalcTimer"
  /\ ~lineItemCalcTimer
  /\ isDrawing
  /\ trackedPoints # <<>>
  /\ drawnRawMeters = 0
  /\ munit["linft"] = 10000
  /\ active = "none"

\* drawnFeature after the step is a geometry of the tracked points.
GeometryStored ==
  \/ drawnFeature' = LineString(trackedPoints)
  \/ trackedPoints # <<>> /\ drawnFeature' = Polygon(closedRing(trackedPoints))

\* C27: a finishDrawing() called while drawing that stores no geometry shows
\* the toast of too few points when fewer than 2 points are tracked and a
\* toast of a failed calculation otherwise; it never returns without a toast.
C27_FailedFinishIsReported ==
  [][(HandlerStep("finishDrawing") /\ isDrawing /\ ~GeometryStored)
       => IF Len(trackedPoints) < 2
          THEN toast' = InsufficientToast
          ELSE toast' \in DegenerateToasts]_vars

\* A polygon of three points that enclose no area has just been refused.
C27_Witness ==
  /\ lastOp = "finishDrawing"
  /\ wasDrawing
  /\ toast = AreaFailedToast
  /\ Len(trackedPoints) = 3
  /\ drawnFeature = NoFeature

\* C28: useMapForItem on a line item changes nothing of the line items but
\* that item's area: its price, type, qty and unit and every other item stay
\* as they are; with no measurement for the item's unit no item changes.
C28_UseMapChangesAreaOnly ==
  [][HandlerStep("useMapForItem")
       => /\ Len(lineItems') = Len(lineItems)
          /\ \A i \in 1..Len(lineItems) :
               \/ lineItems'[i] = lineItems[i]
               \/ /\ lineItems' = [lineItems EXCEPT ![i].area = lineItems'[i].area]
                  /\ getMeasurementByUnit(lineItems[i].unit) > 0]_vars

\* The second item, priced 12.50 per acre, has just taken 0.0230 acre from
\* the map; the first item is as it was.
C28_Witness ==
  /\ lastOp = "useMapForItem"
  /\ toast = "applied"
  /\ lineItems[2] = newLineItem(2, "sealcoating", 230, "acre", 1250, 2)
  /\ lineItems[1].area = 0

\* The preview shows the closing segment and the fill of the tracked points.
PreviewClosed ==
  /\ trackedPoints # <<>>
  /\ preview.line = Append(trackedPoints, trackedPoints[1])
  /\ preview.fill = Append(trackedPoints, trackedPoints[1])

\* The preview shows the tracked points joined in their order, nothing more.
PreviewOpen ==
  /\ preview.line = (IF Len(trackedPoints) >= 2 THEN trackedPoints ELSE <<>>)
  /\ preview.fill = <<>>

RECURSIVE ConsecutiveDistances(_, _)
ConsecutiveDistances(pts, n) ==
  IF n < 2 THEN 0
  ELSE haversineMeters(pts[n - 1], pts[n]) + ConsecutiveDistances(pts, n - 1)

\* C30: lineStringMeters of 0 or 1 points is 0 and of n >= 2 points the sum
\* of the n - 1 distances between consecutive points, without a segment from
\* the last point back to the first; that is the length a finished line gets.
C30_PathLengthIsOpen ==
  /\ Len(trackedPoints) < 2 => lineStringMeters(trackedPoints) = 0
  /\ lineStringMeters(trackedPoints)
       = ConsecutiveDistances(trackedPoints, Len(trackedPoints))
  /\ (lastOp = "finishDrawing" /\ toast \in {LengthToast, TwoPointToast})
       => drawnRawMeters = ConsecutiveDistances(trackedPoints, Len(trackedPoints))

\* A line of three points that ends away from where it starts has just been
\* measured: its length is that of its two segments.
C30_Witness ==
  /\ lastOp = "finishDrawing"
  /\ toast = LengthToast
  /\ Len(trackedPoints) = 3
  /\ trackedPoints[1] # trackedPoints[3]
  /\ trackedPoints[1] # trackedPoints[2]
  /\ drawnRawMeters = haversineMeters(trackedPoints[1], trackedPoints[2])
                        + haversineMeters(trackedPoints[2], trackedPoints[3])

\* The ring read backwards, and the ring started at its second point.
Reversed(pts) == [i \in 1..Len(pts) |-> pts[Len(pts) + 1 - i]]
Rotated(pts) == [i \in 1..Len(pts) |-> pts[(i % Len(pts)) + 1]]

\* C31: polygonAreaMeters gives the same area for the points followed by the
\* first one as for the points alone, and a finishDrawing() that stores a
\* polygon takes both the area and the perimeter from that closed ring: the
\* perimeter is the path along the points plus the one segment back to the
\* first.
C31_RingIsClosedOnce ==
  /\ Len(trackedPoints) >= 1
       => polygonAreaMeters(closedRing(trackedPoints)) = polygonAreaMeters(trackedPoints)
  /\ (lastOp = "finishDrawing" /\ toast = AreaToast)
       => /\ drawnFeature.coordinates = closedRing(trackedPoints)
          /\ drawnRawMeters = polygonAreaMeters(drawnFeature.coordinates)
          /\ drawnPerimeterMeters = lineStringMeters(drawnFeature.coordinates)
          /\ drawnPerimeterMeters
               = ConsecutiveDistances(trackedPoints, Len(trackedPoints))
                   + haversineMeters(trackedPoints[Len(trackedPoints)], trackedPoints[1])

\* A polygon stored whose closing segment is longer than nothing.
C31_Witness ==
  /\ lastOp = "finishDrawing"
  /\ toast = AreaToast
  /\ haversineMeters(trackedPoints[Len(trackedPoints)], trackedPoints[1]) > 0
  /\ drawnPerimeterMeters > ConsecutiveDistances(trackedPoints, Len(trackedPoints))
  /\ drawnRawMeters = polygonAreaMeters(trackedPoints)

\* C32: polygonAreaMeters is never negative, and the ring read backwards or
\* started at another of its points has the same area.
C32_AreaIgnoresWindingAndStart ==
  /\ polygonAreaMeters(trackedPoints) >= 0
  /\ polygonAreaMeters(Reversed(trackedPoints)) = polygonAreaMeters(trackedPoints)
  /\ Len(trackedPoints) >= 1
       => polygonAreaMeters(Rotated(trackedPoints)) = polygonAreaMeters(trackedPoints)
  /\ (lastOp = "finishDrawing" /\ toast = AreaToast)
       => /\ drawnRawMeters = polygonAreaMeters(Reversed(drawnFeature.coordinates))
          /\ drawnRawMeters = polygonAreaMeters(Rotated(trackedPoints))

\* A polygon stored whose corners were tapped in the direction that makes
\* the shoelace sum itself negative.
C32_Witness ==
  /\ lastOp = "finishDrawing"
  /\ toast = AreaToast
  /\ ShoelaceFrom(drawnFeature.coordinates, 1) < 0
  /\ drawnRawMeters > 0

\* The handlers that begin or end a drawing session.
SessionOps == {"startDrawing", "cancelDrawing", "clearDrawing", "finishDrawing"}

\* C33: a candidate that was recorded before the latest startDrawing(),
\* cancelDrawing(), clearDrawing() or finishDrawing() leads to no appended
\* point: when one of them ran last and a candidate is recorded (it can only
\* be older than that call), the pointerup that follows appends nothing.
C33_StaleCandidateAppendsNothing ==
  [][(lastOp \in SessionOps /\ ptrDown # NoPtr /\ lastOp' = "pointerup")
       => trackedPoints' = trackedPoints]_vars

\* The handlers that C34 names: start, tap (pointerdown and pointerup), undo,
\* cancel and unit edit.
LaterOps == {"startDrawing", "pointerdown", "pointerup", "undoLastPoint",
             "cancelDrawing", "onMeasurementInput"}

\* C34: while a feature is stored, startDrawing(), a tap, undoLastPoint(),
\* cancelDrawing() and an edit of a unit box leave it as it is, its
\* coordinates included; the list that a stored LineString shares with
\* trackedPoints is not changed in place, because the session is not drawing
\* as long as the two are one array.
C34_StoredGeometryIsKept ==
  [][/\ (drawnFeature # NoFeature /\ lastOp' \in LaterOps)
          => drawnFeature' = drawnFeature
     /\ coordsShared
          => (~isDrawing /\ drawnFeature.type = "LineString"
                /\ drawnFeature.coordinates = trackedPoints)]_vars

\* A line is stored, and the next session has tapped another list of points
\* and edited a unit box.
C34_Witness ==
  /\ lastOp = "onMeasurementInput"
  /\ isDrawing
  /\ drawnFeature.type = "LineString"
  /\ Len(trackedPoints) >= 1
  /\ trackedPoints # drawnFeature.coordinates
  /\ Len(drawnFeature.coordinates) = 2

\* C35: a finishDrawing() that reports too few points, or a zero area or
\* length, leaves the stored feature and the raw measurement (value,
\* perimeter and kind) as they were.
C35_FailedFinishKeepsResult ==
  [][(lastOp' = "finishDrawing" /\ toast' \in {InsufficientToast} \cup DegenerateToasts)
       => UNCHANGED <<drawnFeature, drawnRawMeters, drawnPerimeterMeters, drawnRawType>>]_vars

\* A polygon of three points that enclose no area was refused while an
\* earlier measurement is stored.
C35_Witness ==
  /\ lastOp = "finishDrawing"
  /\ toast = AreaFailedToast
  /\ drawnFeature # NoFeature
  /\ drawnFeature.coordinates # trackedPoints
  /\ drawnRawMeters > 0

\* C36: whenever a feature is stored the raw measurement is positive, and its
\* kind is area for a Polygon and line for a LineString.
C36_StoredGeometryHasMeasurement ==
  drawnFeature # NoFeature
    => /\ drawnRawMeters > 0
       /\ drawnRawType = (IF drawnFeature.type = "Polygon" THEN "area" ELSE "line")

\* C37: an edit of a unit box changes nothing but the value and the perimeter
\* of the raw measurement and the texts of the boxes: the stored feature, the
\* tracked points, the mode, isDrawing, the kind, the preview, the candidate
\* and the line items stay as they are, in the middle of a drawing too.
C37_EditChangesMeasurementOnly ==
  [][EditStep
       => UNCHANGED <<mapLoaded, drawnFeature, coordsShared, trackedPoints, drawMode,
                      isDrawing, preview, drawnRawType, ptrDown, accepted, lineItems,
                      lineItemCalcTimer>>]_vars

\* An edit in the middle of a drawing, with points tapped, a candidate
\* recorded and a feature stored, that changed the raw measurement.
C37_Witness ==
  /\ lastOp = "onMeasurementInput"
  /\ isDrawing
  /\ Len(trackedPoints) >= 2
  /\ ptrDown # NoPtr
  /\ drawnFeature # NoFeature
  /\ munit["sqft"] = 10000
  /\ drawnRawMeters = 92903

\* C38: while the kind is line, typing a positive number into the sqyd box
\* sets drawnRawMeters to that number / 1.09361 and typing one into the linft,
\* sqft or acre box sets it to that number / 3.28084 (v is the number typed in
\* 1/1000, an acre number in 1/10^7, the result in millimetres); the kind
\* stays line, so that sqft and acre are still derived as null.
C38_LineEditFactors ==
  [][(EditStep /\ drawnRawType = "line" /\ parseBox(munit', active) > 0)
       => LET v == parseBox(munit', active)
          IN  /\ drawnRawMeters'
                   = (IF active = "sqyd" THEN MulDiv(v, 100000, 109361)
                      ELSE IF active = "acre" THEN MulDiv(v, 10, 328084)
                      ELSE MulDiv(v, 100000, 328084))
              /\ drawnRawType' = "line"
              /\ getAllMeasurements(drawnRawMeters', drawnPerimeterMeters',
                                    drawnRawType', munit').sqft = Null
              /\ getAllMeasurements(drawnRawMeters', drawnPerimeterMeters',
                                    drawnRawType', munit').acre = Null]_vars

\* 1000.0 typed into the sqft box of a line: 304.8 m.
C38_Witness ==
  /\ lastOp = "onMeasurementInput"
  /\ drawnRawType = "line"
  /\ active = "sqft"
  /\ munit["sqft"] = 10000
  /\ drawnRawMeters = 304800
  /\ Derived.sqft = Null
  /\ Derived.acre = Null

\* C39: an edit that types no positive number (an empty text or 0) while
\* another box holds a positive number leaves the raw measurement (value,
\* perimeter and kind) unchanged; every other box shows the value derived for
\* it, and a box that showed it before shows the same text.
C39_EmptiedBoxKeepsMeasurement ==
  [][(EditStep /\ parseBox(munit', active) <= 0
        /\ \E u \in Units : u # active /\ parseBox(munit, u) > 0)
       => LET boxes  == [munit EXCEPT ![active] = munit'[active]]
              before == getAllMeasurements(drawnRawMeters, drawnPerimeterMeters,
                                           drawnRawType, munit)
              after  == getAllMeasurements(drawnRawMeters, drawnPerimeterMeters,
                                           drawnRawType, boxes)
          IN  /\ UNCHANGED <<drawnRawMeters, drawnPerimeterMeters, drawnRawType>>
              /\ \A u \in Units \ {active} :
                   /\ munit'[u] = fmt4(after[u], u)
                   /\ munit[u] = fmt4(before[u], u) => munit'[u] = munit[u]]_vars

\* The sqft box of a polygon was set to 0: the measurement and the three
\* other boxes are those of the polygon.
C39_Witness ==
  /\ lastOp = "onMeasurementInput"
  /\ active = "sqft"
  /\ munit["sqft"] = 0
  /\ drawnRawMeters = 18108
  /\ drawnPerimeterMeters = 20547
  /\ munit["sqyd"] > 0
  /\ munit["linft"] > 0
  /\ munit["acre"] > 0

====
